---- MODULE Spec2Model ----
(***************************************************************************)
(* Model of the faker data pipeline: DataFetcher (batched fetch with retry *)
(* and backoff), Person.anonymize, and store_data on the persons table.    *)
(***************************************************************************)
EXTENDS Integers, Sequences, FiniteSets, TLC

(* ---------------- bounds of the model ---------------- *)
MaxTotal == 2
MaxExcess == 1
MaxBatches == 3
RandSteps == 3
MaxRows == 3

(* ---------------- program constants ---------------- *)
MAX_BATCH_SIZE == 1000
MAX_RETRIES_plus_one == 5 + 1
MAX_RETRIES == 5
BASE_DELAY == 1
MAX_DELAY == 30
MIN_QUALITY_ROWS == 2

MASK == "****"

Min(a, b) == IF a <= b THEN a ELSE b

RECURSIVE Pow2(_)
Pow2(n) == IF n = 0 THEN 1 ELSE 2 * Pow2(n - 1)

(* ---------------- dates ---------------- *)
IsLeap(y) == (y % 4 = 0 /\ y % 100 # 0) \/ y % 400 = 0

DaysInMonth(y, m) ==
    IF m \in {4, 6, 9, 11} THEN 30
    ELSE IF m = 2 THEN (IF IsLeap(y) THEN 29 ELSE 28)
    ELSE 31

\* datetime.strptime(birthday, "%Y-%m-%d") succeeds; a birthday string is
\* modelled by its three dash-separated numbers <<y, m, d>>
ValidBirthday(b) ==
    /\ b[1] \in 1..9999
    /\ b[2] \in 1..12
    /\ b[3] \in 1..DaysInMonth(b[1], b[2])

\* (today.month, today.day) < (birth.month, birth.day), tuple comparison
MonthDayBefore(t, b) == t[2] < b[2] \/ (t[2] = b[2] /\ t[3] < b[3])

\* floor division as Python's // (TLA+ \div floors as well)
FloorDiv(a, b) == a \div b

Digit(d) == <<"0", "1", "2", "3", "4", "5", "6", "7", "8", "9">>[d + 1]

RECURSIVE NatToStr(_)
NatToStr(n) == IF n < 10 THEN Digit(n) ELSE NatToStr(n \div 10) \o Digit(n % 10)

IntToStr(n) == IF n < 0 THEN "-" \o NatToStr(0 - n) ELSE NatToStr(n)

Age(today, b) == today[1] - b[1] - (IF MonthDayBefore(today, b) THEN 1 ELSE 0)

Decade(age) == FloorDiv(age, 10) * 10

_calculate_age_group(today, b) ==
    "[" \o IntToStr(Decade(Age(today, b))) \o "-"
        \o IntToStr(Decade(Age(today, b)) + 9) \o "]"

(* ---------------- raw records of the upstream ---------------- *)
\* email is modelled by the list email.split("@") produces
RawJohn ==
    [firstname |-> "John", lastname |-> "Doe", email |-> <<"test", "gmail.com">>,
     phone |-> "1234567890", gender |-> "M", birthday |-> <<1990, 1, 1>>,
     address |-> [country |-> "Germany", city |-> "Berlin",
                  street |-> "Test St", zipcode |-> "12345"]]

RawJane ==
    [firstname |-> "Jane", lastname |-> "Smith", email |-> <<"example", "yahoo.com">>,
     phone |-> "5678", gender |-> "F", birthday |-> <<2000, 12, 31>>,
     address |-> [country |-> "France", city |-> "Paris",
                  street |-> "Rue", zipcode |-> "75001"]]

RawBadBirthday == [RawJohn EXCEPT !.birthday = <<1990, 2, 30>>]

RawNoAt == [RawJohn EXCEPT !.email = <<"nodomain">>]

RawNoCountry ==
    [RawJohn EXCEPT !.address = [city |-> "Berlin", street |-> "Test St",
                                 zipcode |-> "12345"]]

ValidRaw == {RawJohn, RawJane}
BrokenRaw == {RawBadBirthday, RawNoAt, RawNoCountry}

\* outcome of PersonAnonymized(**Person(**_transform_api_data(p)).anonymize())
\* for one record: "ok" or the exception it raises
RecordError(p) ==
    IF Len(p.email) < 2 THEN "IndexError"
    ELSE IF "country" \notin DOMAIN p.address THEN "KeyError"
    ELSE IF ~ValidBirthday(p.birthday) THEN "ValueError"
    ELSE "ok"

_transform_api_data(p) ==
    [firstname |-> p.firstname, lastname |-> p.lastname, email |-> p.email,
     email_provider |-> p.email[2], phone |-> p.phone, gender |-> p.gender,
     birthday |-> p.birthday, address |-> p.address]

anonymize_leaky(today, person) ==
    [firstname |-> MASK, lastname |-> MASK,
     email_provider |-> person.email_provider, phone |-> person.phone,
     gender |-> person.gender, country |-> person.address.country,
     city |-> MASK, street |-> MASK, zipcode |-> MASK,
     age_group |-> _calculate_age_group(today, person.birthday),
     location_masked |-> TRUE]

anonymize(today, person) ==
    [firstname |-> MASK, lastname |-> MASK,
     email_provider |-> person.email_provider, phone |-> MASK,
     gender |-> person.gender, country |-> person.address.country,
     city |-> MASK, street |-> MASK, zipcode |-> MASK,
     age_group |-> _calculate_age_group(today, person.birthday),
     location_masked |-> TRUE]

AnonymizeAll(today, data) ==
    [i \in 1..Len(data) |-> anonymize(today, _transform_api_data(data[i]))]

\* outcome of anonymize_data(p): "ok" or the exception it raises; the year
\* is int(birthday.split("-")[0]), which no birthday of the model fails
AnonymizeDataError(p) ==
    IF Len(p.email) < 2 THEN "IndexError"
    ELSE IF "country" \notin DOMAIN p.address THEN "KeyError"
    ELSE "ok"

\* anonymize_data: age = datetime.now().year - birth_year
anonymize_data(today, p) ==
    [email_provider |-> p.email[2],
     country |-> p.address.country,
     age_group |-> "[" \o IntToStr(Decade(today[1] - p.birthday[1])) \o "-"
                       \o IntToStr(Decade(today[1] - p.birthday[1]) + 9) \o "]"]

\* the first exception the list comprehension of _fetch_batch raises, or "ok"
RECURSIVE FirstError(_)
FirstError(data) ==
    IF data = <<>> THEN "ok"
    ELSE IF RecordError(Head(data)) # "ok" THEN RecordError(Head(data))
    ELSE FirstError(Tail(data))

(* ---------------- upstream responses ---------------- *)
OkResponse(data) == [net |-> FALSE, code |-> 200, status |-> "OK", data |-> data]
NetErrResponse == [net |-> TRUE, code |-> 0, status |-> "", data |-> <<>>]
Http500Response == [net |-> FALSE, code |-> 500, status |-> "OK", data |-> <<>>]
NotOkResponse == [net |-> FALSE, code |-> 200, status |-> "ERROR", data |-> <<>>]

\* data lists the upstream may return for a request of `size` records: n
\* copies of one valid record, optionally with one other record at position k
DataLists(size) ==
    {[i \in 1..n |-> IF i = k THEN q ELSE p] :
        n \in 0..(size + MaxExcess), k \in 0..(size + MaxExcess),
        p \in ValidRaw, q \in ValidRaw \cup BrokenRaw}

Responses(size) ==
    {NetErrResponse, Http500Response, NotOkResponse}
        \cup {OkResponse(d) : d \in DataLists(size)}

NoError == [type |-> "none", msg |-> ""]
Error(t, m) == [type |-> t, msg |-> m]

\* the exception one pass through the try block of _fetch_batch raises for
\* the response, NoError when the list is returned
AttemptError(resp) ==
    IF resp.net THEN Error("RequestError", "connection")
    ELSE IF resp.code \notin 200..299 THEN Error("HTTPStatusError", "status")
    ELSE IF resp.status # "OK" THEN Error("ValueError", "API returned non-OK status")
    ELSE IF FirstError(resp.data) = "ok" THEN NoError
    ELSE Error(FirstError(resp.data), "record")

Retryable_status_only(e) == e.type \in {"HTTPStatusError"}

\* except (httpx.HTTPStatusError, httpx.RequestError, ValueError)
Retryable(e) == e.type \in {"HTTPStatusError", "RequestError", "ValueError"}

\* random.random() is r / RandSteps; delays are in units of 1/DelayDen seconds
DelayDen == 2 * RandSteps
BaseDelayAt(attempt) == Min(BASE_DELAY * Pow2(attempt), MAX_DELAY)
JitterNum_wide(r) == RandSteps + 4 * r
JitterNum(r) == RandSteps + 2 * r
Delay(attempt, r) == BaseDelayAt(attempt) * JitterNum(r)

(* ---------------- persistence ---------------- *)
Rows(ps) == [i \in 1..Len(ps) |-> [id |-> i - 1] @@ ps[i]]

Ids(t) == {t[i].id : i \in 1..Len(t)}

\* INSERT INTO persons violates PRIMARY KEY(id)
KeyConflict(t, rows) == Ids(t) \cap Ids(rows) # {}

InsufficientData_empty(t) == Len(t) < MIN_QUALITY_ROWS - 1

\* check_data_quality raises for fewer than 2 rows
InsufficientData(t) == Len(t) < MIN_QUALITY_ROWS

StoreFaults == {"none", "setup", "validate", "insert", "quality"}

\* except Exception of store_data's inner try: ROLLBACK, then the failed
\* counter, then raise. ROLLBACK itself raises when no transaction is active
\* (before BEGIN and after COMMIT), and then the counter is not reached
HandleFailure(t, n, inTxn, step, e) ==
    IF inTxn
    THEN [table |-> t, succ |-> 0, fail |-> n, step |-> step, err |-> e]
    ELSE [table |-> t, succ |-> 0, fail |-> 0, step |-> step,
          err |-> Error("TransactionException", "no transaction is active")]

\* store_data(persons) on a database whose persons table holds t; fault is
\* the step the environment makes fail, if any
store_data(t, ps, fault) ==
    IF fault = "setup"
    THEN [table |-> t, succ |-> 0, fail |-> 0, step |-> "setup",
          err |-> Error("IOException", "setup")]
    ELSE IF fault = "validate"
    THEN HandleFailure(t, Len(ps), FALSE, "validate", Error("Exception", "validate"))
    ELSE IF fault = "insert"
    THEN HandleFailure(t, Len(ps), TRUE, "insert", Error("IOException", "insert"))
    ELSE IF KeyConflict(t, Rows(ps))
    THEN HandleFailure(t, Len(ps), TRUE, "insert",
                       Error("ConstraintException", "duplicate key"))
    ELSE IF InsufficientData(t \o Rows(ps))
    THEN HandleFailure(t \o Rows(ps), Len(ps), FALSE, "quality",
                       Error("ValueError", "Need at least 2 records for meaningful metrics"))
    ELSE IF fault = "quality"
    THEN HandleFailure(t \o Rows(ps), Len(ps), FALSE, "quality",
                       Error("Exception", "quality"))
    ELSE [table |-> t \o Rows(ps), succ |-> Len(ps), fail |-> 0, step |-> "none",
          err |-> NoError]

\* for retry in range(MAX_RETRIES)
InRetryRange(n) == n \in 0..(MAX_RETRIES - 1)

LastAttempt_off(n) == n = MAX_RETRIES

\* if retry == self.MAX_RETRIES - 1
LastAttempt(n) == n = MAX_RETRIES - 1

Extend_drop(ps, b) == ps

\* persons.extend(batch)
Extend(ps, b) == ps \o b

\* FakerAPIConfig.gender
DefaultGender == "male"

\* params = {"_quantity": str(size), "_gender": self.gender}
RequestParams(n) == [_quantity |-> IntToStr(n), _gender |-> DefaultGender]

\* no request has been prepared
NoParams == <<>>

PbarUpdate_over(n, b) == n + Len(b) + 1

\* pbar.update(len(batch))
PbarUpdate(n, b) == n + Len(b)

StoreBatchSize_own(cfg, own) == own

\* store_data(persons, batch_size=self.config.batch_size)
StoreBatchSize(cfg, own) == cfg

HasData_always(ps) == TRUE

\* if persons:
HasData(ps) == ps # <<>>

(* ---------------- quality metrics ---------------- *)
\* SQL NULL in a VARCHAR column, a value no string of the model equals
Null == "<NULL>"

RECURSIVE GCD(_, _)
GCD(a, b) == IF b = 0 THEN a ELSE GCD(b, a % b)

\* a float, kept as the exact fraction n / d in lowest terms (d > 0)
Frac(n, d) == [num |-> n \div GCD(n, d), den |-> d \div GCD(n, d)]

Zero == Frac(0, 1)

FracAdd(a, b) == Frac(a.num * b.den + b.num * a.den, a.den * b.den)
FracMul(a, b) == Frac(a.num * b.num, a.den * b.den)

\* x::FLOAT / NULLIF(COUNT(*), 0), fetched through _safe_fetch_result or
\* _safe_fetch_value: NULL becomes 0.0
Ratio(n, cnt) == IF cnt = 0 THEN Zero ELSE Frac(n, cnt)

\* fields = ["email_provider", "country", "age_group", "gender"]
QualityFields == {"email_provider", "country", "age_group", "gender"}

PiiFields == {"firstname", "lastname", "phone", "city", "street", "zipcode"}

\* rows WHERE field IS NOT NULL
NonNull(t, f) == {i \in 1..Len(t) : t[i][f] # Null}

\* SUM(CASE WHEN field IS NOT NULL THEN 1 ELSE 0 END) / COUNT(*)
_check_completeness(t, fields) ==
    [f \in fields |-> Ratio(Cardinality(NonNull(t, f)), Len(t))]

\* NULLIF(COUNT(*), 0) of _check_uniqueness
UniquenessDenominator(t, f) == Len(t)

\* COUNT(DISTINCT field) / COUNT(*)
_check_uniqueness(t, fields) ==
    [f \in fields |->
        Ratio(Cardinality({t[i][f] : i \in NonNull(t, f)}),
              UniquenessDenominator(t, f))]

\* v LIKE '****%'
LikeMask(v) ==
    v # Null /\ Len(v) >= Len(MASK) /\ SubSeq(v, 1, Len(MASK)) = MASK

RowMasked_noflag(r) == \A f \in PiiFields : LikeMask(r[f])

\* the WHEN condition of _check_pii_masking
RowMasked(r) ==
    (\A f \in PiiFields : LikeMask(r[f])) /\ r.location_masked = TRUE

_check_pii_masking(t) ==
    Ratio(Cardinality({i \in 1..Len(t) : RowMasked(t[i])}), Len(t))

Char(v, i) == SubSeq(v, i, i)

IsDigit(c) == c \in {Digit(d) : d \in 0..9}

DigitVal(c) == CHOOSE d \in 0..9 : Digit(d) = c

RECURSIVE StrToNat(_)
StrToNat(v) ==
    IF Len(v) = 0 THEN 0
    ELSE 10 * StrToNat(SubSeq(v, 1, Len(v) - 1)) + DigitVal(Char(v, Len(v)))

\* positions of the dash in a string of the form [digits-digits]
DashAt(v) ==
    {k \in 3..(Len(v) - 2) :
        /\ Char(v, k) = "-"
        /\ \A i \in 2..(k - 1) : IsDigit(Char(v, i))
        /\ \A i \in (k + 1)..(Len(v) - 1) : IsDigit(Char(v, i))}

\* age_group SIMILAR TO '\[\d+-\d+\]'
SimilarToAgeGroup(v) ==
    /\ v # Null
    /\ Len(v) >= 5
    /\ Char(v, 1) = "[" /\ Char(v, Len(v)) = "]"
    /\ DashAt(v) # {}

\* CAST(REGEXP_EXTRACT(age_group, '\[(\d+)-\d+\]', 1) AS INTEGER)
AgeGroupLow(v) == StrToNat(SubSeq(v, 2, (CHOOSE k \in DashAt(v) : TRUE) - 1))

\* CAST(REGEXP_EXTRACT(age_group, '\[\d+-(\d+)\]', 1) AS INTEGER)
AgeGroupHigh(v) ==
    StrToNat(SubSeq(v, (CHOOSE k \in DashAt(v) : TRUE) + 1, Len(v) - 1))

\* the WHEN condition of _check_format_validity
AgeGroupValid(v) ==
    SimilarToAgeGroup(v) /\ AgeGroupLow(v) <= AgeGroupHigh(v)

\* return {"age_group": _safe_fetch_value(result)}
_check_format_validity(t) ==
    [f \in {"age_group"} |->
        Ratio(Cardinality({i \in 1..Len(t) : AgeGroupValid(t[i].age_group)}),
              Len(t))]

_count_valid_records(t, fields) ==
    Cardinality({i \in 1..Len(t) :
        /\ \A f \in fields : t[i][f] # Null
        /\ SimilarToAgeGroup(t[i].age_group)
        /\ t[i].location_masked = TRUE})

\* the dataclass QualityMetrics
QualityMetrics(c, u, p, f, n, v) ==
    [completeness |-> c, uniqueness |-> u, pii_masking |-> p,
     format_validity |-> f, total_records |-> n, valid_records |-> v]

\* no QualityMetrics was built
EmptyDict == [f \in {} |-> Zero]
NoMetrics == QualityMetrics(EmptyDict, EmptyDict, Zero, EmptyDict, 0, 0)

RECURSIVE SumValues(_, _)
SumValues(d, keys) ==
    IF keys = {} THEN Zero
    ELSE LET k == CHOOSE x \in keys : TRUE
         IN FracAdd(d[k], SumValues(d, keys \ {k}))

\* sum(d.values()) / len(d), for a non-empty dict
MeanOf(d) == FracMul(SumValues(d, DOMAIN d), Frac(1, Cardinality(DOMAIN d)))

W_completeness == Frac(4, 10)
W_uniqueness_swapped == Frac(2, 10)
W_uniqueness == Frac(3, 10)
W_pii == Frac(2, 10)
W_format == Frac(1, 10)

\* if not self.completeness.values() or not self.uniqueness.values()
ScoreIsZero(m) == DOMAIN m.completeness = {} \/ DOMAIN m.uniqueness = {}

\* sum(...) / len(self.format_validity) divides by zero
ScoreRaises(m) == ~ScoreIsZero(m) /\ DOMAIN m.format_validity = {}

\* QualityMetrics.overall_score, where it does not raise
overall_score(m) ==
    IF ScoreIsZero(m) THEN Zero
    ELSE FracAdd(FracAdd(FracMul(MeanOf(m.completeness), W_completeness),
                         FracMul(MeanOf(m.uniqueness), W_uniqueness)),
                 FracAdd(FracMul(m.pii_masking, W_pii),
                         FracMul(MeanOf(m.format_validity), W_format)))

\* check_data_quality(conn) on a persons table holding t, past the count test
Snapshot(t) ==
    QualityMetrics(_check_completeness(t, QualityFields),
                   _check_uniqueness(t, QualityFields),
                   _check_pii_masking(t),
                   _check_format_validity(t),
                   Len(t),
                   _count_valid_records(t, QualityFields))

(* ---------------- state ---------------- *)
(* ---------------- verify_data ---------------- *)
\* WHERE email_provider IS NULL OR country IS NULL OR age_group IS NULL
\*    OR gender IS NULL
HasNullRequired(r) == \E f \in QualityFields : r[f] = Null

\* WHERE NOT age_group SIMILAR TO '\[\d+-\d+\]': NULL for a NULL age_group,
\* which WHERE does not select
BadAgeGroupFormat(r) == r.age_group # Null /\ ~SimilarToAgeGroup(r.age_group)

\* f NOT LIKE '****%' is NULL for a NULL f; the OR of the six is TRUE when
\* one of them is TRUE
UnmaskedPii_anyflag(r) ==
    \E f \in PiiFields : r[f] # Null /\ ~LikeMask(r[f])

\* WHERE (firstname NOT LIKE '****%' OR ... OR zipcode NOT LIKE '****%')
\*   AND location_masked = true
UnmaskedPii(r) ==
    /\ \E f \in PiiFields : r[f] # Null /\ ~LikeMask(r[f])
    /\ r.location_masked = TRUE

\* the value verify_data returns when every statement of its try block runs
\* to a return: exists is verify_table_exists(conn, "persons"), t the rows
verify_data(exists, t) ==
    IF ~exists THEN FALSE
    ELSE IF Len(t) = 0 THEN FALSE
    ELSE IF Cardinality({i \in 1..Len(t) : HasNullRequired(t[i])}) > 0 THEN FALSE
    ELSE IF Cardinality({i \in 1..Len(t) : BadAgeGroupFormat(t[i])}) > 0 THEN FALSE
    ELSE IF Cardinality({i \in 1..Len(t) : UnmaskedPii(t[i])}) > 0 THEN FALSE
    ELSE TRUE

\* str(bool)
BoolStr(b) == IF b THEN "True" ELSE "False"

VARIABLES
    pc,                \* position of the pipeline run
    total,             \* DataFetcher.total
    batch_size,        \* DataFetcher.batch_size
    config_batch_size, \* DataFetcher.config.batch_size
    today,             \* date.today()
    persons,           \* _fetch_batches: persons
    remaining,         \* _fetch_batches: remaining
    pbar,              \* _fetch_batches: progress bar position
    batches,           \* _fetch_batch calls of this fetch, counted up to MaxBatches
    size,              \* _fetch_batch: size
    params,            \* _fetch_batch: params, the query of the requests
    retry,             \* _fetch_batch: retry
    reqs,              \* requests issued by the current _fetch_batch call
    delay,             \* _fetch_batch: delay, the latest slept, in 1/DelayDen seconds
    waited,            \* sum of the delays slept by the current _fetch_batch call
    batch,             \* _fetch_batches: batch, the list _fetch_batch returned
    lastData,          \* the data list of the response batch was made from
    lastErr,           \* _fetch_batch: e, the exception that left the retry loop
    err,               \* the exception fetch_and_save raised
    returned,          \* get_persons has returned
    result,            \* the list get_persons returned
    outcome,           \* how the run ended
    storeCalls,        \* store_data calls of this run
    storeArgs,         \* the arguments of the store_data call
    storeStep,         \* the step at which store_data failed
    tableBefore,       \* persons table when store_data was called
    table,             \* rows of the persons table
    records_success,   \* RECORDS_PROCESSED{status="success"}
    records_failed,    \* RECORDS_PROCESSED{status="failed"}
    metrics,           \* the QualityMetrics built last
    quality_score,     \* QUALITY_SCORE gauge
    raw,               \* the record given to the anonymizers, in a list
    anonOut,           \* what Person.anonymize made of it, in a list
    anonErr,           \* the exception the Person path raised, or "none"
    dataOut,           \* what anonymize_data made of it, in a list
    dataErr,           \* the exception anonymize_data raised, or "none"
    tableExists,       \* the database has a persons table
    connection,        \* verify_data: conn, "none" while unbound
    verified           \* what the verify_data call came to

fetchVars == <<persons, remaining, pbar, batches, batch, lastData>>
batchVars == <<size, params, retry, reqs, delay, waited, lastErr>>
cfgVars == <<total, batch_size, config_batch_size, today>>
storeVars == <<storeCalls, storeArgs, storeStep, tableBefore, table, records_success,
               records_failed, metrics, quality_score>>
resVars == <<returned, result>>
anonVars == <<raw, anonOut, anonErr, dataOut, dataErr>>
verifyVars == <<tableExists, connection, verified>>
vars == <<pc, cfgVars, fetchVars, batchVars, err, resVars, outcome, storeVars,
          anonVars, verifyVars>>

Totals == (0 - 1)..MaxTotal
BatchSizes == {1, MAX_BATCH_SIZE + 1}
Todays == {<<2025, 6, 15>>}

\* the database file outlives the process: what earlier runs left in persons
InitialTables(t) ==
    {<<>>, Rows(AnonymizeAll(t, <<RawJohn, RawJane>>))}

Init ==
    /\ pc = "new"
    /\ total = 0 /\ batch_size = 0 /\ config_batch_size = 0
    /\ today \in Todays
    /\ persons = <<>> /\ remaining = 0 /\ pbar = 0 /\ batches = 0 /\ batch = <<>>
    /\ lastData = <<>>
    /\ size = 0 /\ params = NoParams /\ retry = 0 /\ reqs = 0 /\ delay = 0 /\ waited = 0
    /\ lastErr = NoError
    /\ err = NoError /\ returned = FALSE /\ result = <<>> /\ outcome = "running"
    /\ storeCalls = 0 /\ storeArgs = [persons |-> <<>>, batch_size |-> 0]
    /\ storeStep = "none" /\ table \in InitialTables(today) /\ tableBefore = table
    /\ records_success = 0 /\ records_failed = 0
    /\ metrics = NoMetrics /\ quality_score = Zero
    /\ raw = <<>> /\ anonOut = <<>> /\ anonErr = "none"
    /\ dataOut = <<>> /\ dataErr = "none"
    /\ tableExists = (table # <<>>) /\ connection = "none" /\ verified = "none"

\* DataFetcher.__init__, given a FakerAPIConfig or the three values
Construct(t, b, viaConfig) ==
    /\ pc = "new"
    /\ total' = t
    /\ batch_size' = Min(b, MAX_BATCH_SIZE)
    /\ config_batch_size' = IF viaConfig THEN b ELSE Min(b, MAX_BATCH_SIZE)
    /\ pc' = "constructed"
    /\ UNCHANGED <<verifyVars, anonVars, today, fetchVars, batchVars, err, resVars, outcome, storeVars>>

\* fetch_and_save -> get_persons -> _fetch_batches, up to the loop
StartFetch ==
    /\ pc = "constructed"
    /\ persons' = <<>>
    /\ remaining' = total
    /\ pbar' = 0
    /\ batches' = 0
    /\ batch' = <<>>
    /\ lastData' = <<>>
    /\ pc' = "loop"
    /\ UNCHANGED <<verifyVars, anonVars, cfgVars, batchVars, err, resVars, outcome, storeVars>>

\* while remaining > 0: call _fetch_batch(client, min(MAX_BATCH_SIZE, remaining))
CallFetchBatch ==
    /\ pc = "loop"
    /\ remaining > 0
    /\ size' = Min(MAX_BATCH_SIZE, remaining)
    /\ params' = RequestParams(size')
    /\ retry' = 0
    /\ reqs' = 0
    /\ delay' = 0
    /\ waited' = 0
    /\ batches' = Min(batches + 1, MaxBatches)
    /\ pc' = "request"
    /\ UNCHANGED <<verifyVars, anonVars, cfgVars, persons, remaining, pbar, batch, lastData, lastErr,
                   err, resVars, outcome, storeVars>>

\* an iteration of the retry loop whose response is turned into records:
\* _fetch_batch returns and _fetch_batches extends persons
AttemptSucceeds(resp) ==
    /\ pc = "request"
    /\ InRetryRange(retry)
    /\ AttemptError(resp) = NoError
    /\ reqs' = reqs + 1
    /\ lastData' = resp.data
    /\ batch' = AnonymizeAll(today, resp.data)
    /\ persons' = Extend(persons, batch')
    /\ remaining' = remaining - Len(batch')
    /\ pbar' = PbarUpdate(pbar, batch')
    /\ delay' = 0
    /\ waited' = 0
    /\ pc' = "loop"
    /\ UNCHANGED <<verifyVars, anonVars, cfgVars, batches, size, params, retry, lastErr, err, resVars, outcome,
                   storeVars>>

\* an iteration that is not the last raises a caught exception: the delay
\* is computed and slept and the loop goes on; were the range used up then,
\* the raise below the loop would be reached
AttemptRetries(resp, r) ==
    /\ pc = "request"
    /\ InRetryRange(retry)
    /\ Retryable(AttemptError(resp))
    /\ ~LastAttempt(retry)
    /\ reqs' = reqs + 1
    /\ retry' = retry + 1
    /\ IF InRetryRange(retry + 1)
       THEN /\ delay' = Delay(retry, r)
            /\ waited' = waited + Delay(retry, r)
            /\ UNCHANGED <<pc, lastErr, err, outcome>>
       ELSE /\ delay' = 0
            /\ waited' = 0
            /\ lastErr' = AttemptError(resp)
            /\ err' = Error("ValueError", "Failed to fetch data after all retries")
            /\ outcome' = "exhausted"
            /\ pc' = "failed"
    /\ UNCHANGED <<verifyVars, anonVars, cfgVars, fetchVars, size, params, resVars, storeVars>>

AttemptExhausts_partial(resp) ==
    /\ pc = "request"
    /\ InRetryRange(retry)
    /\ Retryable(AttemptError(resp))
    /\ LastAttempt(retry)
    /\ reqs' = reqs + 1
    /\ lastErr' = AttemptError(resp)
    /\ delay' = 0
    /\ waited' = 0
    /\ outcome' = "exhausted"
    /\ returned' = TRUE
    /\ result' = persons
    /\ pc' = "fetched"
    /\ UNCHANGED <<verifyVars, anonVars, cfgVars, fetchVars, size, params, retry, err, storeVars>>

\* the last iteration raises a caught exception: bare raise, which leaves
\* _fetch_batch, get_persons and fetch_and_save
AttemptExhausts(resp) ==
    /\ pc = "request"
    /\ InRetryRange(retry)
    /\ Retryable(AttemptError(resp))
    /\ LastAttempt(retry)
    /\ reqs' = reqs + 1
    /\ lastErr' = AttemptError(resp)
    /\ err' = AttemptError(resp)
    /\ delay' = 0
    /\ waited' = 0
    /\ outcome' = "exhausted"
    /\ pc' = "failed"
    /\ UNCHANGED <<verifyVars, anonVars, cfgVars, fetchVars, size, params, retry, resVars, storeVars>>

\* an exception the except clause does not name leaves _fetch_batch at once
AttemptFatal(resp) ==
    /\ pc = "request"
    /\ InRetryRange(retry)
    /\ AttemptError(resp) # NoError
    /\ ~Retryable(AttemptError(resp))
    /\ reqs' = reqs + 1
    /\ lastErr' = AttemptError(resp)
    /\ err' = AttemptError(resp)
    /\ delay' = 0
    /\ waited' = 0
    /\ outcome' = "fatal"
    /\ pc' = "failed"
    /\ UNCHANGED <<verifyVars, anonVars, cfgVars, fetchVars, size, params, retry, resVars, storeVars>>

\* remaining <= 0: pbar.close(), return persons
ReturnPersons ==
    /\ pc = "loop"
    /\ remaining <= 0
    /\ returned' = TRUE
    /\ result' = persons
    /\ pc' = "fetched"
    /\ UNCHANGED <<verifyVars, anonVars, cfgVars, fetchVars, batchVars, err, outcome, storeVars>>

\* fetch_and_save with a non-empty list: ensure_database_setup, store_data
StoreStage(fault) ==
    /\ pc = "fetched"
    /\ HasData(result)
    /\ LET r == store_data(table, result, fault) IN
        /\ storeCalls' = storeCalls + 1
        /\ storeArgs' = [persons |-> result,
                         batch_size |-> StoreBatchSize(config_batch_size, batch_size)]
        /\ storeStep' = r.step
        /\ tableBefore' = table
        /\ table' = r.table
        /\ records_success' = records_success + r.succ
        /\ records_failed' = records_failed + r.fail
        /\ metrics' = IF r.err = NoError THEN Snapshot(r.table) ELSE metrics
        /\ quality_score' = IF r.err = NoError THEN overall_score(Snapshot(r.table))
                            ELSE quality_score
        /\ err' = r.err
        /\ outcome' = IF r.err = NoError THEN "stored" ELSE "store_failed"
        /\ pc' = IF r.err = NoError THEN "done" ELSE "failed"
    /\ tableExists' = TRUE
    /\ UNCHANGED <<connection, verified, anonVars, cfgVars, fetchVars, batchVars, resVars>>

\* ensure_database_setup(conn) of fetch_and_save raises: store_data is not reached
SetupFails ==
    /\ pc = "fetched"
    /\ HasData(result)
    /\ err' = Error("IOException", "setup")
    /\ outcome' = "setup_failed"
    /\ pc' = "failed"
    /\ UNCHANGED <<verifyVars, anonVars, cfgVars, fetchVars, batchVars, resVars, storeVars>>

\* fetch_and_save with an empty list
EmptyResult ==
    /\ pc = "fetched"
    /\ ~HasData(result)
    /\ err' = Error("ValueError", "No valid data fetched from API")
    /\ outcome' = "empty"
    /\ pc' = "failed"
    /\ UNCHANGED <<verifyVars, anonVars, cfgVars, fetchVars, batchVars, resVars, storeVars>>

Next ==
    \/ \E t \in Totals, b \in BatchSizes, c \in BOOLEAN : Construct(t, b, c)
    \/ StartFetch
    \/ CallFetchBatch
    \/ \E resp \in Responses(size) : AttemptSucceeds(resp)
    \/ \E resp \in Responses(size), r \in 0..(RandSteps - 1) : AttemptRetries(resp, r)
    \/ \E resp \in Responses(size) : AttemptExhausts(resp)
    \/ \E resp \in Responses(size) : AttemptFatal(resp)
    \/ ReturnPersons
    \/ \E f \in StoreFaults : StoreStage(f)
    \/ SetupFails
    \/ EmptyResult

Spec == Init /\ [][Next]_vars

\* one run on a fresh database of a fetcher made for at most one record
LoopTotals == {0, 1}

LoopInit == Init /\ table = <<>>

LoopNext ==
    \/ \E t \in LoopTotals, b \in BatchSizes, c \in BOOLEAN : Construct(t, b, c)
    \/ StartFetch
    \/ CallFetchBatch
    \/ \E resp \in Responses(size) : AttemptSucceeds(resp)
    \/ \E resp \in Responses(size), r \in 0..(RandSteps - 1) : AttemptRetries(resp, r)
    \/ \E resp \in Responses(size) : AttemptExhausts(resp)
    \/ \E resp \in Responses(size) : AttemptFatal(resp)
    \/ ReturnPersons
    \/ \E f \in StoreFaults : StoreStage(f)
    \/ SetupFails
    \/ EmptyResult

\* the steps of get_persons
FetchStep ==
    \/ CallFetchBatch
    \/ \E resp \in Responses(size) : AttemptSucceeds(resp)
    \/ \E resp \in Responses(size), r \in 0..(RandSteps - 1) : AttemptRetries(resp, r)
    \/ \E resp \in Responses(size) : AttemptExhausts(resp)
    \/ \E resp \in Responses(size) : AttemptFatal(resp)
    \/ ReturnPersons

\* the event loop runs the fetch whenever it can proceed: the upstream
\* answers every request and every sleep ends
FairSpec == LoopInit /\ [][LoopNext]_vars /\ WF_vars(FetchStep)

(* ---------------- quality checks on their own ---------------- *)
\* rows a persons table can hold: what anonymize writes, and rows written
\* otherwise with a NULL, an unmasked field, a false flag or an inverted range
QualityRows(t) ==
    LET john == anonymize(t, _transform_api_data(RawJohn))
        jane == anonymize(t, _transform_api_data(RawJane))
    IN {john, jane,
        [john EXCEPT !.email_provider = Null],
        [john EXCEPT !.firstname = "John"],
        [john EXCEPT !.location_masked = FALSE],
        [john EXCEPT !.age_group = "[40-30]"]}

QualityTables(t) ==
    {Rows(q) : q \in UNION {[1..n -> QualityRows(t)] : n \in 0..MaxRows}}

RatioValues == {Frac(0, 1), Frac(1, 2), Frac(1, 1)}

RatioDicts ==
    UNION {[D -> RatioValues] : D \in {{}, {"age_group"}, {"age_group", "gender"}}}

\* QualityMetrics instances built directly, as a caller or a test builds them
MetricsInputs ==
    {QualityMetrics(c, u, p, f, 2, 0) :
        c \in RatioDicts, u \in RatioDicts, p \in RatioValues, f \in RatioDicts}

\* a process about to call check_data_quality on a persons table, or about
\* to build a QualityMetrics and read its overall_score
QInit ==
    /\ total = 0 /\ batch_size = 0 /\ config_batch_size = 0
    /\ today \in Todays
    /\ persons = <<>> /\ remaining = 0 /\ pbar = 0 /\ batches = 0 /\ batch = <<>>
    /\ lastData = <<>>
    /\ size = 0 /\ params = NoParams /\ retry = 0 /\ reqs = 0 /\ delay = 0
    /\ waited = 0 /\ lastErr = NoError
    /\ err = NoError /\ returned = FALSE /\ result = <<>> /\ outcome = "running"
    /\ storeCalls = 0 /\ storeArgs = [persons |-> <<>>, batch_size |-> 0]
    /\ storeStep = "none"
    /\ records_success = 0 /\ records_failed = 0
    /\ quality_score = Zero
    /\ raw = <<>> /\ anonOut = <<>> /\ anonErr = "none"
    /\ dataOut = <<>> /\ dataErr = "none"
    /\ tableExists = TRUE /\ connection = "none" /\ verified = "none"
    /\ \/ pc = "quality" /\ table \in QualityTables(today) /\ metrics = NoMetrics
       \/ pc = "score" /\ table = <<>> /\ metrics \in MetricsInputs
    /\ tableBefore = table

\* check_data_quality: count < 2, ValueError
CheckQualityRaises ==
    /\ pc = "quality"
    /\ InsufficientData(table)
    /\ err' = Error("ValueError", "Need at least 2 records for meaningful metrics")
    /\ pc' = "check_failed"
    /\ UNCHANGED <<verifyVars, anonVars, cfgVars, fetchVars, batchVars, resVars, outcome, storeVars>>

\* check_data_quality: the metrics are built, the gauges set, metrics returned
CheckQualityReturns ==
    /\ pc = "quality"
    /\ ~InsufficientData(table)
    /\ metrics' = Snapshot(table)
    /\ quality_score' = overall_score(Snapshot(table))
    /\ pc' = "checked"
    /\ UNCHANGED <<verifyVars, anonVars, cfgVars, fetchVars, batchVars, resVars, outcome, err, storeCalls,
                   storeArgs, storeStep, tableBefore, table, records_success,
                   records_failed>>

\* update_prometheus_metrics of a QualityMetrics built directly
ScoreReturns ==
    /\ pc = "score"
    /\ ~ScoreRaises(metrics)
    /\ quality_score' = overall_score(metrics)
    /\ pc' = "scored"
    /\ UNCHANGED <<verifyVars, anonVars, cfgVars, fetchVars, batchVars, resVars, outcome, err, storeCalls,
                   storeArgs, storeStep, tableBefore, table, records_success,
                   records_failed, metrics>>

\* overall_score divides by len(self.format_validity) = 0
ScoreFails ==
    /\ pc = "score"
    /\ ScoreRaises(metrics)
    /\ err' = Error("ZeroDivisionError", "division by zero")
    /\ pc' = "score_failed"
    /\ UNCHANGED <<verifyVars, anonVars, cfgVars, fetchVars, batchVars, resVars, outcome, storeVars>>

QNext ==
    \/ CheckQualityRaises
    \/ CheckQualityReturns
    \/ ScoreReturns
    \/ ScoreFails

QualitySpec == QInit /\ [][QNext]_vars

(* ---------------- the anonymizers on their own ---------------- *)
AnonTodays ==
    {<<2025, 6, 15>>, <<2024, 2, 29>>, <<2025, 2, 28>>, <<2025, 12, 31>>,
     <<2025, 1, 1>>}

\* birthdays the upstream may send, valid ones and ones that are no date
AnonBirthdays ==
    {<<y, md[1], md[2]>> :
        y \in {1960, 1995, 1996, 2000, 2025, 2030},
        md \in {<<1, 1>>, <<2, 28>>, <<2, 29>>, <<2, 30>>, <<6, 15>>, <<6, 16>>,
                <<12, 31>>, <<13, 1>>}}

AnonRaws ==
    {[p EXCEPT !.birthday = b] :
        p \in {RawJohn, RawJane, RawNoAt, RawNoCountry}, b \in AnonBirthdays}

\* a process about to anonymize one upstream record, first as _fetch_batch
\* does, then with anonymize_data
AInit ==
    /\ pc = "anon"
    /\ total = 0 /\ batch_size = 0 /\ config_batch_size = 0
    /\ today \in AnonTodays
    /\ persons = <<>> /\ remaining = 0 /\ pbar = 0 /\ batches = 0 /\ batch = <<>>
    /\ lastData = <<>>
    /\ size = 0 /\ params = NoParams /\ retry = 0 /\ reqs = 0 /\ delay = 0
    /\ waited = 0 /\ lastErr = NoError
    /\ err = NoError /\ returned = FALSE /\ result = <<>> /\ outcome = "running"
    /\ storeCalls = 0 /\ storeArgs = [persons |-> <<>>, batch_size |-> 0]
    /\ storeStep = "none" /\ table = <<>> /\ tableBefore = <<>>
    /\ records_success = 0 /\ records_failed = 0
    /\ metrics = NoMetrics /\ quality_score = Zero
    /\ raw \in {<<p>> : p \in AnonRaws}
    /\ anonOut = <<>> /\ anonErr = "none"
    /\ dataOut = <<>> /\ dataErr = "none"
    /\ tableExists = FALSE /\ connection = "none" /\ verified = "none"

\* PersonAnonymized(**Person(**_transform_api_data(p)).anonymize()) returns
ProcessRecordReturns ==
    /\ pc = "anon"
    /\ RecordError(raw[1]) = "ok"
    /\ anonOut' = <<anonymize(today, _transform_api_data(raw[1]))>>
    /\ pc' = "anon_data"
    /\ UNCHANGED <<verifyVars, cfgVars, fetchVars, batchVars, err, resVars, outcome, storeVars,
                   raw, anonErr, dataOut, dataErr>>

\* the same expression raises
ProcessRecordRaises ==
    /\ pc = "anon"
    /\ RecordError(raw[1]) # "ok"
    /\ anonErr' = RecordError(raw[1])
    /\ pc' = "anon_data"
    /\ UNCHANGED <<verifyVars, cfgVars, fetchVars, batchVars, err, resVars, outcome, storeVars,
                   raw, anonOut, dataOut, dataErr>>

\* anonymize_data(p) returns
AnonymizeDataReturns ==
    /\ pc = "anon_data"
    /\ AnonymizeDataError(raw[1]) = "ok"
    /\ dataOut' = <<anonymize_data(today, raw[1])>>
    /\ pc' = "anon_end"
    /\ UNCHANGED <<verifyVars, cfgVars, fetchVars, batchVars, err, resVars, outcome, storeVars,
                   raw, anonOut, anonErr, dataErr>>

\* anonymize_data(p) raises
AnonymizeDataRaises ==
    /\ pc = "anon_data"
    /\ AnonymizeDataError(raw[1]) # "ok"
    /\ dataErr' = AnonymizeDataError(raw[1])
    /\ pc' = "anon_end"
    /\ UNCHANGED <<verifyVars, cfgVars, fetchVars, batchVars, err, resVars, outcome, storeVars,
                   raw, anonOut, anonErr, dataOut>>

ANext ==
    \/ ProcessRecordReturns
    \/ ProcessRecordRaises
    \/ AnonymizeDataReturns
    \/ AnonymizeDataRaises

AnonSpec == AInit /\ [][ANext]_vars

(* ---------------- verify_data on its own ---------------- *)
\* rows a persons table can hold: what anonymize writes, and rows written
\* otherwise, as the tests of verify_data write them
VerifyRows(t) ==
    LET john == anonymize(t, _transform_api_data(RawJohn))
        jane == anonymize(t, _transform_api_data(RawJane))
    IN {john, jane,
        [john EXCEPT !.country = Null],
        [john EXCEPT !.age_group = "invalid-format"],
        [john EXCEPT !.age_group = "[30-40]", !.firstname = "****John"],
        [john EXCEPT !.zipcode = "12345"],
        [john EXCEPT !.firstname = "John", !.location_masked = FALSE],
        [john EXCEPT !.firstname = Null]}

VerifyTables(t) ==
    {Rows(q) : q \in UNION {[1..n -> VerifyRows(t)] : n \in 0..MaxRows}}

\* a process about to call verify_data on a database file: one without a
\* persons table, or one whose persons table holds some rows
VInit ==
    /\ pc = "verify"
    /\ total = 0 /\ batch_size = 0 /\ config_batch_size = 0
    /\ today \in Todays
    /\ persons = <<>> /\ remaining = 0 /\ pbar = 0 /\ batches = 0 /\ batch = <<>>
    /\ lastData = <<>>
    /\ size = 0 /\ params = NoParams /\ retry = 0 /\ reqs = 0 /\ delay = 0
    /\ waited = 0 /\ lastErr = NoError
    /\ err = NoError /\ returned = FALSE /\ result = <<>> /\ outcome = "running"
    /\ storeCalls = 0 /\ storeArgs = [persons |-> <<>>, batch_size |-> 0]
    /\ storeStep = "none"
    /\ records_success = 0 /\ records_failed = 0
    /\ metrics = NoMetrics /\ quality_score = Zero
    /\ raw = <<>> /\ anonOut = <<>> /\ anonErr = "none"
    /\ dataOut = <<>> /\ dataErr = "none"
    /\ \/ tableExists = FALSE /\ table = <<>>
       \/ tableExists = TRUE /\ table \in VerifyTables(today)
    /\ tableBefore = table
    /\ connection = "none" /\ verified = "none"

\* verify_data: connect, the checks run to a return, finally conn.close()
VerifyReturns ==
    /\ pc = "verify"
    /\ verified' = BoolStr(verify_data(tableExists, table))
    /\ connection' = "closed"
    /\ pc' = "verified"
    /\ UNCHANGED <<tableExists, anonVars, cfgVars, fetchVars, batchVars, err, resVars,
                   outcome, storeVars>>

\* verify_data: connect, a statement of the try block raises, except
\* Exception returns False, finally conn.close()
VerifyQueryFails ==
    /\ pc = "verify"
    /\ verified' = BoolStr(FALSE)
    /\ connection' = "closed"
    /\ pc' = "verify_error"
    /\ UNCHANGED <<tableExists, anonVars, cfgVars, fetchVars, batchVars, err, resVars,
                   outcome, storeVars>>

\* verify_data: duckdb.connect raises, except Exception reaches its return,
\* finally conn.close() reads the unbound conn and raises in its place
VerifyConnectFails ==
    /\ pc = "verify"
    /\ verified' = "raised"
    /\ err' = Error("UnboundLocalError",
                    "cannot access local variable 'conn' where it is not associated with a value")
    /\ connection' = "none"
    /\ pc' = "verify_raised"
    /\ UNCHANGED <<tableExists, anonVars, cfgVars, fetchVars, batchVars, resVars,
                   outcome, storeVars>>

VNext ==
    \/ VerifyReturns
    \/ VerifyQueryFails
    \/ VerifyConnectFails

VerifySpec == VInit /\ [][VNext]_vars

(* ---------------- properties ---------------- *)
IsPrefix(s, t) == Len(s) <= Len(t) /\ SubSeq(t, 1, Len(s)) = s
EndsWith(s, t) == Len(t) <= Len(s) /\ SubSeq(s, Len(s) - Len(t) + 1, Len(s)) = t

\* C1: every request asks for min(batch_size, remaining) records, so that a
\* fetch is cut into ceil(total / batch_size) requests of at most batch_size
C1_RequestQuantity == pc = "request" => size = Min(batch_size, remaining)

\* C2: the list get_persons returns has exactly total records
C2_ExactTotal == (returned /\ total > 0) => Len(result) = total

\* C3: a _fetch_batch call issues at most 5 requests, and a request is issued
\* only while its batch is in flight (neither returned nor raised)
C3_RetryBudget ==
    /\ [](reqs <= 5)
    /\ [][reqs' # reqs =>
            (reqs' = 0 \/ (pc = "request" /\ retry < 5 /\ reqs' = reqs + 1))]_vars

C3_Witness == outcome = "exhausted" /\ reqs = 5

\* C4: a batch that succeeds after k failed attempts has cost k + 1 requests,
\* its records are appended to persons, persons never loses a record, and
\* get_persons returns persons
C4_RetryThenSuccess ==
    /\ []((pc \in {"loop", "fetched", "done"} /\ batches > 0) =>
            /\ reqs = retry + 1
            /\ retry < 5
            /\ EndsWith(persons, AnonymizeAll(today, lastData)))
    /\ [](returned => result = persons)
    /\ [][pc # "constructed" => IsPrefix(persons, persons')]_vars

C4_Witness ==
    /\ pc = "fetched" /\ batches = 2 /\ retry = 2 /\ reqs = 3
    /\ Len(lastData) = 1 /\ Len(result) = 2

UnjitteredWait(attempt) == Min(BASE_DELAY * Pow2(attempt), MAX_DELAY)

\* C5 as stated: the wait after failed attempt retry - 1 is between half the
\* un-jittered value and the un-jittered value, at most MAX_DELAY, and the
\* waits after attempts 0 and 1 sum to between 1.5 and 3 BASE_DELAY
C5_JitterAtMostOne ==
    delay > 0 =>
        /\ 2 * delay >= DelayDen * UnjitteredWait(retry - 1)
        /\ delay <= DelayDen * UnjitteredWait(retry - 1)
        /\ delay <= DelayDen * MAX_DELAY
        /\ retry = 2 =>
            /\ 2 * waited >= 3 * BASE_DELAY * DelayDen
            /\ waited <= 3 * BASE_DELAY * DelayDen

\* C5 amended: the jitter factor is in [0.5, 1.5): the wait is at least half
\* and less than 1.5 times the un-jittered value, at most MAX_DELAY, and the
\* waits after attempts 0 and 1 sum to at least 1.5 and less than 4.5 BASE_DELAY
C5_JitterBounds ==
    delay > 0 =>
        /\ pc = "request" /\ retry \in 1..4
        /\ 2 * delay >= DelayDen * UnjitteredWait(retry - 1)
        /\ 2 * delay < 3 * DelayDen * UnjitteredWait(retry - 1)
        /\ delay <= DelayDen * MAX_DELAY
        /\ retry = 2 =>
            /\ 2 * waited >= 3 * BASE_DELAY * DelayDen
            /\ 2 * waited < 9 * BASE_DELAY * DelayDen

C5_Witness ==
    /\ retry = 2
    /\ delay > DelayDen * UnjitteredWait(1)
    /\ waited > 3 * BASE_DELAY * DelayDen

C7_NoPartialSuccess ==
    outcome = "exhausted" =>
        /\ ~returned /\ result = <<>>
        /\ storeCalls = 0
        /\ table = tableBefore
        /\ records_success = 0

C7_Witness == outcome = "exhausted" /\ Len(persons) > 0 /\ batches = 2

\* C8: a store_data call that raised left the persons table as it was, and
\* store_data is called at most once
C8_AllOrNothing ==
    /\ storeCalls <= 1
    /\ (storeCalls > 0 /\ err # NoError) => table = tableBefore

\* C9: a store_data call that failed in validation, insertion or the quality
\* step has added the number of records to the failed counter, and the
\* success counter is raised only by a call that returned
C9_FailureCounted ==
    /\ storeStep \in {"validate", "insert", "quality"} =>
            records_failed = Len(result)
    /\ records_success > 0 => (outcome = "stored" /\ records_success = Len(result))

\* C10: a fetch that returned no record makes fetch_and_save fail with
\* ValueError("No valid data fetched from API") without calling store_data
C10_EmptyIsError ==
    /\ []((returned /\ result = <<>>) =>
            /\ storeCalls = 0
            /\ pc \in {"fetched", "failed"}
            /\ pc = "failed" =>
                /\ outcome = "empty"
                /\ err = Error("ValueError", "No valid data fetched from API"))
    /\ [][(returned /\ result = <<>> /\ pc = "fetched") => pc' = "failed"]_vars

C10_Witness == outcome = "empty" /\ pc = "failed" /\ returned

C12_BadBirthdayNotRetried ==
    [][\A resp \in Responses(size) :
            (resp.status = "OK" /\ AttemptError(resp) = Error("ValueError", "record"))
                => \A r \in 0..(RandSteps - 1) : ~AttemptRetries(resp, r)]_vars

TransientResponses == {NetErrResponse, Http500Response, NotOkResponse}

AttemptStep(resp) ==
    \/ AttemptSucceeds(resp)
    \/ \E r \in 0..(RandSteps - 1) : AttemptRetries(resp, r)
    \/ AttemptExhausts(resp)
    \/ AttemptFatal(resp)

\* C13: an attempt before the last that meets a request error, a non-2xx
\* status or a status marker other than OK is followed by a positive wait
\* and the next attempt of the same batch; the run does not fail
C13_TransientRetried ==
    [][\A resp \in TransientResponses :
            (AttemptStep(resp) /\ retry < MAX_RETRIES - 1) =>
                /\ pc' = "request"
                /\ retry' = retry + 1 /\ reqs' = reqs + 1
                /\ delay' > 0 /\ waited' = waited + delay'
                /\ size' = size /\ batches' = batches /\ persons' = persons
                /\ err' = NoError /\ outcome' = "running"]_vars

C13_Witness == pc = "request" /\ retry = 3 /\ reqs = 3 /\ delay > 0 /\ batches = 2

\* C14: every request carries a seed that is the sequence number of its
\* batch, the same for all attempts of a batch and different between batches
C14_SeedPerBatch ==
    pc = "request" =>
        ("_seed" \in DOMAIN params /\ params["_seed"] = IntToStr(batches))

\* C15: the progress position equals the number of records aggregated, grows
\* only when a batch returns and then by that batch's length, never
\* decreases during a fetch, and a failed attempt leaves it as it was
C15_ProgressHonest ==
    /\ [](pbar = Len(persons))
    /\ [][pc # "constructed" => pbar' >= pbar]_vars
    /\ [][(pbar' # pbar) =>
            (pc = "request" /\ pc' = "loop" /\ pbar' = pbar + Len(batch'))]_vars
    /\ [][(reqs' = reqs + 1 /\ pc' # "loop") => pbar' = pbar]_vars

C15_Witness == pc = "request" /\ batches = 2 /\ retry = 1 /\ pbar = 1

\* C16: check_data_quality raises ValueError("Need at least 2 records for
\* meaningful metrics") on a persons table of 0 or 1 rows and returns a
\* QualityMetrics for every table of 2 or more rows; the row count alone
\* decides between the two
C16_MinimumRows ==
    /\ [](pc = "check_failed" =>
            /\ Len(table) \in {0, 1}
            /\ err = Error("ValueError", "Need at least 2 records for meaningful metrics")
            /\ metrics = NoMetrics)
    /\ [](pc = "checked" =>
            /\ Len(table) >= 2
            /\ err = NoError
            /\ metrics.total_records = Len(table)
            /\ DOMAIN metrics.completeness = QualityFields
            /\ DOMAIN metrics.uniqueness = QualityFields)
    /\ [](pc = "quality" => (InsufficientData(table) <=> Len(table) \in {0, 1}))
    /\ [][pc = "quality" =>
            pc' = IF Len(table) < 2 THEN "check_failed" ELSE "checked"]_vars

C16_Witness == pc = "check_failed" /\ Len(table) = 1 /\ err.type = "ValueError"

DistinctNonNull(t, f) == {t[i][f] : i \in {k \in 1..Len(t) : t[k][f] # Null}}
CountNonNull(t, f) == Cardinality({k \in 1..Len(t) : t[k][f] # Null})

\* C17: the uniqueness ratio of each designated field is the number of
\* distinct non-null values over the number of non-null values, and 0 when
\* the field has no non-null value
C17_UniquenessOverNonNull ==
    pc = "checked" =>
        \A f \in QualityFields :
            metrics.uniqueness[f] =
                (IF CountNonNull(table, f) = 0 THEN Frac(0, 1)
                 ELSE Frac(Cardinality(DistinctNonNull(table, f)),
                           CountNonNull(table, f)))

CarriesSentinel(v) == IsPrefix("****", v)

FullyMaskedRows(t) ==
    {i \in 1..Len(t) :
        /\ CarriesSentinel(t[i].firstname) /\ CarriesSentinel(t[i].lastname)
        /\ CarriesSentinel(t[i].phone) /\ CarriesSentinel(t[i].city)
        /\ CarriesSentinel(t[i].street) /\ CarriesSentinel(t[i].zipcode)
        /\ t[i].location_masked}

LooksLikeDomain(v) ==
    \E k \in 2..(Len(v) - 2) : SubSeq(v, k, k) = "." /\ v # Null

NotPurelyNumeric(v) ==
    v # Null /\ Len(v) > 0 /\ \E i \in 1..Len(v) : ~IsDigit(SubSeq(v, i, i))

FractionOf(rows, t) == IF Len(t) = 0 THEN Frac(0, 1) ELSE Frac(Cardinality(rows), Len(t))

\* C19: the snapshot holds a format-validity ratio for each of email_provider,
\* country, age_group and gender: the fraction of rows with a well-formed age
\* range, with a domain-like provider, with a non-numeric country, and 0 for
\* gender
C19_FormatValidityAllFields ==
    pc = "checked" =>
        /\ DOMAIN metrics.format_validity = QualityFields
        /\ metrics.format_validity["gender"] = Frac(0, 1)
        /\ metrics.format_validity["age_group"] =
                FractionOf({i \in 1..Len(table) : AgeGroupValid(table[i].age_group)}, table)
        /\ metrics.format_validity["email_provider"] =
                FractionOf({i \in 1..Len(table) : LooksLikeDomain(table[i].email_provider)}, table)
        /\ metrics.format_validity["country"] =
                FractionOf({i \in 1..Len(table) : NotPurelyNumeric(table[i].country)}, table)

NonEmptyRatioSets(m) ==
    /\ DOMAIN m.completeness # {}
    /\ DOMAIN m.uniqueness # {}
    /\ DOMAIN m.format_validity # {}

WeightedScore(m) ==
    FracAdd(FracAdd(FracMul(Frac(4, 10), MeanOf(m.completeness)),
                    FracMul(Frac(3, 10), MeanOf(m.uniqueness))),
            FracAdd(FracMul(Frac(2, 10), m.pii_masking),
                    FracMul(Frac(1, 10), MeanOf(m.format_validity))))

\* C20: the overall score of a snapshot whose three ratio sets are non-empty
\* is 0.4 mean(completeness) + 0.3 mean(uniqueness) + 0.2 pii_masking
\* + 0.1 mean(format validity); it is 1 when every ratio is 1
C20_WeightedScore ==
    (pc \in {"checked", "scored"} /\ NonEmptyRatioSets(metrics)) =>
        /\ quality_score = WeightedScore(metrics)
        /\ (/\ \A f \in DOMAIN metrics.completeness : metrics.completeness[f] = Frac(1, 1)
            /\ \A f \in DOMAIN metrics.uniqueness : metrics.uniqueness[f] = Frac(1, 1)
            /\ \A f \in DOMAIN metrics.format_validity : metrics.format_validity[f] = Frac(1, 1)
            /\ metrics.pii_masking = Frac(1, 1))
           => quality_score = Frac(1, 1)

C20_Witness ==
    /\ pc = "scored"
    /\ metrics.completeness = [f \in {"age_group"} |-> Frac(1, 1)]
    /\ metrics.uniqueness = [f \in {"age_group", "gender"} |-> Frac(0, 1)]
    /\ metrics.pii_masking = Frac(1, 2)
    /\ metrics.format_validity = [f \in {"age_group"} |-> Frac(1, 2)]
    /\ quality_score = Frac(11, 20)

MeanOrZero(d) == IF DOMAIN d = {} THEN Frac(0, 1) ELSE MeanOf(d)

\* C21: a snapshot with an empty completeness, uniqueness or format-validity
\* set still gets a score, in which the empty component counts 0 and the
\* others count their weighted terms
C21_EmptyContributesZero ==
    (pc \in {"scored", "score_failed"} /\ ~NonEmptyRatioSets(metrics)) =>
        /\ pc = "scored"
        /\ quality_score =
            FracAdd(FracAdd(FracMul(Frac(4, 10), MeanOrZero(metrics.completeness)),
                            FracMul(Frac(3, 10), MeanOrZero(metrics.uniqueness))),
                    FracAdd(FracMul(Frac(2, 10), metrics.pii_masking),
                            FracMul(Frac(1, 10), MeanOrZero(metrics.format_validity))))

ExactAge(t, b) ==
    t[1] - b[1] - (IF t[2] * 100 + t[3] < b[2] * 100 + b[3] THEN 1 ELSE 0)

AgeGroupOf(D) == "[" \o IntToStr(D) \o "-" \o IntToStr(D + 9) \o "]"

\* the age groups the anonymizers have written for a valid birthday
WrittenAgeGroups ==
    (IF anonOut # <<>> THEN {anonOut[1].age_group} ELSE {})
        \cup (IF dataOut # <<>> /\ ValidBirthday(raw[1].birthday)
              THEN {dataOut[1].age_group} ELSE {})

\* C22: the age_group written for a valid birthday is [D-(D+9)] with D a
\* multiple of 10 and D <= age <= D + 9, age being the year difference less
\* one when today's month and day precede the birthday's
C22_AgeGroupExact ==
    \A g \in WrittenAgeGroups :
        \E D \in {10 * k : k \in (0 - 2)..13} :
            /\ D <= ExactAge(today, raw[1].birthday)
            /\ ExactAge(today, raw[1].birthday) <= D + 9
            /\ g = AgeGroupOf(D)

SentinelOnly(r) ==
    /\ r.firstname = "****" /\ r.lastname = "****" /\ r.phone = "****"
    /\ r.city = "****" /\ r.street = "****" /\ r.zipcode = "****"
    /\ r.location_masked = TRUE

HidesOriginal(r, p) ==
    /\ r.firstname # p.firstname /\ r.lastname # p.lastname
    /\ r.phone # p.phone /\ r.city # p.address.city
    /\ r.street # p.address.street /\ r.zipcode # p.address.zipcode

\* C23: every record made from an upstream record has the sentinel in
\* firstname, lastname, phone, city, street and zipcode, whatever the input
\* held, has location_masked true, and keeps the input's gender and country;
\* every record aggregated or returned by get_persons is of that kind
C23_MaskedVerbatim ==
    /\ Len(batch) = Len(lastData)
    /\ \A i \in 1..Len(batch) :
            /\ SentinelOnly(batch[i])
            /\ HidesOriginal(batch[i], lastData[i])
            /\ batch[i].gender = lastData[i].gender
            /\ batch[i].country = lastData[i].address.country
    /\ \A i \in 1..Len(persons) : SentinelOnly(persons[i])
    /\ returned => \A i \in 1..Len(result) : SentinelOnly(result[i])

C23_Witness ==
    /\ returned /\ Len(result) = 2 /\ Len(lastData) = 2
    /\ lastData[1].firstname = "John" /\ result[1].gender = "M"
    /\ lastData[2].firstname = "Jane" /\ result[2].gender = "F"
    /\ result[2].country = "France"

\* C24: anonymizing a record fails exactly when its birthday is no calendar
\* date, and then with the parse error; a record whose email has no @ or
\* whose address has no country does not fail in any other way
C24_OnlyBirthdayFails ==
    pc # "anon" =>
        /\ anonErr \in {"none", "ValueError"}
        /\ anonErr = "ValueError" <=> ~ValidBirthday(raw[1].birthday)

AllDigits(v) ==
    Len(v) > 0 /\ \A i \in 1..Len(v) : SubSeq(v, i, i) \in
        {"0", "1", "2", "3", "4", "5", "6", "7", "8", "9"}

\* v is "[", digits, "-", digits, "]"
BracketedRange(v) ==
    \E k \in 1..Len(v) :
        /\ SubSeq(v, 1, 1) = "[" /\ SubSeq(v, Len(v), Len(v)) = "]"
        /\ SubSeq(v, k, k) = "-"
        /\ AllDigits(SubSeq(v, 2, k - 1))
        /\ AllDigits(SubSeq(v, k + 1, Len(v) - 1))

VerifyConditions ==
    /\ tableExists
    /\ Len(table) >= 1
    /\ \A i \in 1..Len(table) :
        /\ \A f \in {"email_provider", "country", "age_group", "gender"} :
            table[i][f] # Null
        /\ BracketedRange(table[i].age_group)
        /\ table[i].location_masked = TRUE =>
            \A f \in {"firstname", "lastname", "phone", "city", "street", "zipcode"} :
                table[i][f] = Null \/ CarriesSentinel(table[i][f])

C26_PositiveTotal == pc # "new" => total > 0

\* C27: a fetch for total > 0 that is in its loop eventually returns the
\* list or raises
C27_FetchTerminates ==
    (pc = "loop" /\ total > 0) ~> (pc \in {"fetched", "failed"})

\* C28: a store_data call on a database that an earlier call has filled is
\* not refused for its keys, and when it returns the table holds the rows of
\* both calls under pairwise distinct ids
C28_SecondStoreSucceeds ==
    (storeCalls = 1 /\ tableBefore # <<>>) =>
        /\ err.type # "ConstraintException"
        /\ outcome = "stored" =>
            /\ Len(table) = Len(tableBefore) + Len(result)
            /\ Cardinality(Ids(table)) = Len(table)

\* C29: where both anonymizers return, anonymize_data and Person.anonymize
\* give the same email_provider, country and age_group
C29_AnonymizersAgree ==
    (pc = "anon_end" /\ anonOut # <<>> /\ dataOut # <<>>) =>
        /\ dataOut[1].email_provider = anonOut[1].email_provider
        /\ dataOut[1].country = anonOut[1].country
        /\ dataOut[1].age_group = anonOut[1].age_group

\* C30: every verify_data call ends by returning True or False, and with no
\* connection left open
C30_VerifyNeverRaises ==
    verified # "none" =>
        /\ verified \in {"True", "False"}
        /\ connection # "open"

====
